---- MODULE Spec2Model ----
(***************************************************************************)
(* py3status-meetings: one render cycle of Py3status.meetings, the         *)
(* calendar fetch and filter of GoogleCalendar, and the Duration, Event    *)
(* and get_duration_color helpers.                                         *)
(*                                                                         *)
(* Time is counted in whole seconds.  An aware datetime is a record        *)
(* [instant, tz]: the instant it denotes and the zone it is expressed in.  *)
(* A provider dateTime string (ISO-8601 with an offset) is a record        *)
(* [wall, offset]: the wall-clock reading and the offset written after it. *)
(***************************************************************************)
EXTENDS Integers, Sequences, FiniteSets, TLC

VARIABLES
    now,                  \* the system clock (seconds)
    ticks,                \* clock advances so far (bounded by MaxTicks)
    calendar_names,       \* Py3status.calendar_names
    pc,                   \* position of the render cycle
    output,               \* meetings: local output
    returned,             \* <<>> or <<the record meetings returned>>
    calls,                \* provider requests executed in this cycle, in order
    raw_calendars,        \* get_next_events: local raw_calendars
    applicable_calendars, \* get_next_events: local applicable_calendars
    cal,                  \* get_next_events: index of the loop variable cal
    all_events,           \* get_next_events / meetings: local all_events
    events,               \* _get_events: items the loop has still to visit
    parsed_events,        \* _get_events: local parsed_events
    iter,                 \* _get_events: <<>> or <<what the last loop iteration did>>
    next_event,           \* meetings: <<>> (None) or <<next_event>>
    tu_now,               \* Event.time_until: local now (the instant read)
    time_until,           \* meetings: <<>> or <<time_until>>
    form,                 \* argument of a direct Duration(form) construction
    shown,                \* <<>> or <<str(Duration(form))>>
    tint                  \* <<>> or <<get_duration_color(Duration(form))>>

cycleVars == <<now, ticks, calendar_names, pc, output, returned, calls, raw_calendars,
               applicable_calendars, cal, all_events, events, parsed_events, iter,
               next_event, tu_now, time_until>>
durationVars == <<form, shown, tint>>
vars == <<now, ticks, calendar_names, pc, output, returned, calls, raw_calendars,
          applicable_calendars, cal, all_events, events, parsed_events, iter,
          next_event, tu_now, time_until, form, shown, tint>>

---------------------------------------------------------------------------
(* Bounds of the model *)

\* Items in one events().list response (the code asks for maxResults=10).
MaxEvents == 2
\* Calendars in one calendarList().list response.
MaxCalendars == 2
\* Seconds the clock advances during the behaviours explored.
MaxTicks == 1
\* Largest second count handed directly to Duration.
MaxSeconds == 7530

(* Constants of the program *)

UrgentMinutes == 20
SoonMinutes == 120
WindowHours == 24
CacheSeconds == 60
MinutesPerHour == 60
SecondsPerMinute == 60
SecondsPerDay == 86400

---------------------------------------------------------------------------
(* Numbers: Python's true division yields a fraction, kept here exact as   *)
(* [num, den] with den > 0.                                                *)

TrueDiv(r, n) == [num |-> r.num, den |-> r.den * n]

Whole(n) == [num |-> n, den |-> 1]

\* r % n for a positive integer n: the result has the sign of n.
ModInt(r, n) == [num |-> r.num % (n * r.den), den |-> r.den]

\* r < n
LessThan(r, n) == r.num < n * r.den

\* '%d' % r: truncation toward zero.
FormatD(r) ==
    IF r.num >= 0 THEN ToString(r.num \div r.den)
    ELSE IF (0 - r.num) \div r.den = 0 THEN "0"
    ELSE "-" \o ToString((0 - r.num) \div r.den)

---------------------------------------------------------------------------
(* datetime.timedelta: normalised to days and 0 <= seconds < 86400 *)

timedelta(total) ==
    [type |-> "timedelta", days |-> total \div SecondsPerDay,
     seconds |-> total % SecondsPerDay]

int(n) == [type |-> "int", value |-> n]

---------------------------------------------------------------------------
(* class Duration *)

Duration(f) ==
    IF f.type = "int" THEN [seconds |-> f.value]
    ELSE [seconds |-> f.seconds]

minutes_full(d) == TrueDiv(Whole(d.seconds), SecondsPerMinute)

\* Faulty variant of minutes: the minutes are not wrapped at the hour.
minutes_not_wrapped(d) == TrueDiv(Whole(d.seconds), SecondsPerMinute)

minutes(d) == ModInt(TrueDiv(Whole(d.seconds), SecondsPerMinute), MinutesPerHour)

hours_full(d) == TrueDiv(minutes_full(d), MinutesPerHour)

Duration_str(d) ==
    LET hours == IF LessThan(hours_full(d), 1) THEN ""
                 ELSE FormatD(hours_full(d)) \o "h "
        mins == FormatD(minutes(d)) \o "m"
    IN  hours \o mins

---------------------------------------------------------------------------
(* get_duration_color *)

NoColor == "None"

\* Faulty variant of get_duration_color: both comparisons include the limit.
get_duration_color_inclusive(d) ==
    IF d.seconds <= UrgentMinutes * SecondsPerMinute THEN "#FF0000"
    ELSE IF d.seconds <= SoonMinutes * SecondsPerMinute THEN "#FFFF00"
    ELSE NoColor

get_duration_color(d) ==
    IF LessThan(minutes_full(d), UrgentMinutes) THEN "#FF0000"
    ELSE IF LessThan(minutes_full(d), SoonMinutes) THEN "#FFFF00"
    ELSE NoColor

---------------------------------------------------------------------------
(* Aware datetimes and time zones *)

\* pytz.timezone(name)
timezone(name) ==
    [name |-> name, utcoffset |-> IF name = "Europe/Paris" THEN 3600 ELSE 0]

\* datetime.fromisoformat of a string with an offset
fromisoformat(s) ==
    [instant |-> s.wall - s.offset,
     tz |-> [name |-> "fixed", utcoffset |-> s.offset]]

astimezone(dt, tz) == [instant |-> dt.instant, tz |-> tz]

\* datetime.datetime.now(tz) when the clock reads `clock`
datetime_now(clock, tz) == [instant |-> clock, tz |-> tz]

\* a < b on aware datetimes compares the instants
datetime_lt(a, b) == a.instant < b.instant

\* a - b on aware datetimes
datetime_sub(a, b) == timedelta(a.instant - b.instant)

---------------------------------------------------------------------------
(* class Event *)

Event(summary, tz, start, end, color) ==
    [summary |-> summary, tz |-> tz, start |-> start, end |-> end, color |-> color]

\* Event.time_until, with the clock reading its call to now() gets
Event_time_until(self, clock) ==
    Duration(datetime_sub(self.start, datetime_now(clock, self.tz)))

---------------------------------------------------------------------------
(* What the calendar provider may answer *)

ProviderCalendars ==
    { [id |-> "work@cal", summary |-> "Work", backgroundColor |-> "#111"],
      [id |-> "life@cal", summary |-> "Life", backgroundColor |-> "#222"],
      [id |-> "other@cal", summary |-> "Other", backgroundColor |-> "#333"] }

\* calendarList().list(): any list of distinct calendars
CalendarListResponses ==
    { s \in UNION { [1..k -> ProviderCalendars] : k \in 0..MaxCalendars } :
        \A i, j \in DOMAIN s : i # j => s[i] # s[j] }

\* A timed event: start and end records carry 'dateTime', and 'timeZone' when
\* the event has a named zone.
TimedItem(summary, start, length, offset, zone) ==
    LET named == IF zone = "" THEN <<>> ELSE [timeZone |-> zone]
    IN  [summary |-> summary,
         start |-> [dateTime |-> [wall |-> start + offset, offset |-> offset]] @@ named,
         end |-> [dateTime |-> [wall |-> start + length + offset, offset |-> offset]]
                 @@ named]

\* An all-day event: start and end records carry 'date' (a day number) only.
AllDayItem(summary, day) ==
    [summary |-> summary, start |-> [date |-> day], end |-> [date |-> day + 1]]

\* The events a calendar may hold that overlap [t, t + 24h): one starting this
\* very second, one in 10 minutes, one in 90 minutes, and tomorrow's all-day
\* event.
ProviderItems(t) ==
    { TimedItem("Standup", t, 900, 3600, "Europe/Paris"),
      TimedItem("Review", t + 600, 1800, 0, ""),
      TimedItem("Lunch", t + 5400, 3600, 3600, "Europe/Paris"),
      AllDayItem("Holiday", (t \div SecondsPerDay) + 1) }

\* The provider's own start time of an item (orderBy='startTime').
ProviderStart(item) ==
    IF "date" \in DOMAIN item.start THEN item.start.date * SecondsPerDay
    ELSE item.start.dateTime.wall - item.start.dateTime.offset

\* events().list(timeMin=t, timeMax=t+24h, singleEvents, orderBy=startTime)
EventsResponses(t) ==
    { s \in UNION { [1..k -> ProviderItems(t)] : k \in 0..MaxEvents } :
        \A i, j \in DOMAIN s :
            /\ i < j => ProviderStart(s[i]) <= ProviderStart(s[j])
            /\ ProviderStart(s[i]) < t + WindowHours * 60 * SecondsPerMinute }

TrackedNameSets == SUBSET {"Work", "Gone"} \cup {{"Work", "Life"}}

---------------------------------------------------------------------------
(* GoogleCalendar._get_events: the body of `for event in events` *)

\* Faulty variant of loop_body: no all-day check, and the start and end are
\* read as event[..].get('dateTime', event[..].get('date')), a date being
\* midnight of that day.
loop_body_quickstart(event, clock, color) ==
    LET text(rec) == IF "dateTime" \in DOMAIN rec THEN rec.dateTime
                     ELSE [wall |-> rec.date * SecondsPerDay, offset |-> 0]
        tz == timezone("utc")
        start_date == astimezone(fromisoformat(text(event.start)), tz)
        end_date == astimezone(fromisoformat(text(event.end)), tz)
    IN  IF datetime_lt(start_date, datetime_now(clock, tz))
        THEN [exit |-> "started", ev |-> <<>>]
        ELSE [exit |-> "appended",
              ev |-> <<Event(event.summary, tz, start_date, end_date, color)>>]

\* Faulty variant of loop_body: the start is not compared with now.
loop_body_no_start_check(event, clock, color) ==
    IF "date" \in DOMAIN event.start
    THEN [exit |-> "allday", ev |-> <<>>]
    ELSE LET tz == timezone("utc")
             start_date == astimezone(fromisoformat(event.start.dateTime), tz)
             end_date == astimezone(fromisoformat(event.end.dateTime), tz)
         IN  [exit |-> "appended",
              ev |-> <<Event(event.summary, tz, start_date, end_date, color)>>]

\* What one iteration does with `event` when now(tz) reads `clock`:
\* exit "allday" and "started" are the two `continue`s, "appended" the append.
loop_body(event, clock, color) ==
    IF "date" \in DOMAIN event.start
    THEN [exit |-> "allday", ev |-> <<>>]
    ELSE LET tz == IF "timezone" \in DOMAIN event.start
                   THEN timezone(event.start.timeZone)
                   ELSE timezone("utc")
             start_date == astimezone(fromisoformat(event.start.dateTime), tz)
             end_date == astimezone(fromisoformat(event.end.dateTime), tz)
         IN  IF datetime_lt(start_date, datetime_now(clock, tz))
             THEN [exit |-> "started", ev |-> <<>>]
             ELSE [exit |-> "appended",
                   ev |-> <<Event(event.summary, tz, start_date, end_date, color)>>]

\* An Event with a record of where it came from: the provider item, the
\* calendar it was fetched from and the clock reading of its start filter.
\* The record is read by the properties only.
Tagged(ev, item, owner, clock) ==
    ev @@ [origin |-> [item |-> item, calendar |-> owner, at |-> clock]]

---------------------------------------------------------------------------
(* GoogleCalendar.get_next_events *)

\* Faulty variant of applicable: the names are not consulted.
applicable_without_filter(raw, names) == raw

applicable(raw, names) == SelectSeq(raw, LAMBDA c : c.summary \in names)

\* Faulty variant of insert_sorted: e goes in front of the elements that start
\* when it does, so equal starts come out in reverse.
RECURSIVE insert_before_equal(_, _)
insert_before_equal(e, s) ==
    IF s = <<>> THEN <<e>>
    ELSE IF ~datetime_lt(Head(s).start, e.start) THEN <<e>> \o s
    ELSE <<Head(s)>> \o insert_before_equal(e, Tail(s))

\* list.sort(key=attrgetter('start')): stable, ascending.  insert_sorted puts e
\* behind every element that does not start later than e.
RECURSIVE insert_sorted(_, _)
insert_sorted(e, s) ==
    IF s = <<>> THEN <<e>>
    ELSE IF datetime_lt(e.start, Head(s).start) THEN <<e>> \o s
    ELSE <<Head(s)>> \o insert_sorted(e, Tail(s))

RECURSIVE sort_by_start(_)
sort_by_start(s) ==
    IF s = <<>> THEN <<>>
    ELSE insert_sorted(s[Len(s)], sort_by_start(SubSeq(s, 1, Len(s) - 1)))

---------------------------------------------------------------------------
(* Py3status.meetings *)

\* Faulty variant of first_or_none: all_events[-1].
last_or_none(all) == IF Len(all) > 0 THEN <<all[Len(all)]>> ELSE <<>>

first_or_none(all) == IF Len(all) > 0 THEN <<all[1]>> ELSE <<>>

\* The record meetings returns, from its locals output, next_event, time_until.
meetings_output(out, next, until) ==
    IF next # <<>>
    THEN out @@ [composite |->
                   << [full_text |-> "In " \o Duration_str(until[1]) \o " ",
                       color |-> get_duration_color(until[1])],
                      [full_text |-> next[1].summary, color |-> next[1].color] >>]
    ELSE out @@ [full_text |-> "No upcoming events"]

---------------------------------------------------------------------------
(* The render cycle *)

Init ==
    /\ now = 0
    /\ ticks = 0
    /\ calendar_names \in TrackedNameSets
    /\ pc = "idle"
    /\ output = <<>>
    /\ returned = <<>>
    /\ calls = <<>>
    /\ raw_calendars = <<>>
    /\ applicable_calendars = <<>>
    /\ cal = 1
    /\ all_events = <<>>
    /\ events = <<>>
    /\ parsed_events = <<>>
    /\ iter = <<>>
    /\ next_event = <<>>
    /\ tu_now = <<>>
    /\ time_until = <<>>
    /\ form = 0
    /\ shown = <<>>
    /\ tint = <<>>

\* The host calls meetings (again, once the last call has ended).
Meetings ==
    /\ pc \in {"idle", "returned", "raised"}
    /\ pc' = "calendarList"
    /\ output' = [cached_until |-> now + CacheSeconds]
    /\ returned' = <<>>
    /\ calls' = <<>>
    /\ raw_calendars' = <<>>
    /\ applicable_calendars' = <<>>
    /\ cal' = 1
    /\ all_events' = <<>>
    /\ events' = <<>>
    /\ parsed_events' = <<>>
    /\ iter' = <<>>
    /\ next_event' = <<>>
    /\ tu_now' = <<>>
    /\ time_until' = <<>>
    /\ UNCHANGED <<now, ticks, calendar_names, form, shown, tint>>

\* calendarList().list().execute() answers.
CalendarListExecute ==
    /\ pc = "calendarList"
    /\ \E resp \in CalendarListResponses :
        /\ raw_calendars' = resp
        /\ applicable_calendars' = applicable(resp, calendar_names)
    /\ calls' = Append(calls, [request |-> "calendarList", ok |-> TRUE])
    /\ all_events' = <<>>
    /\ cal' = 1
    /\ pc' = "for_cal"
    /\ UNCHANGED <<now, ticks, calendar_names, output, returned, events, parsed_events,
                   iter, next_event, tu_now, time_until, form, shown, tint>>

\* calendarList().list().execute() raises: nothing catches it.
CalendarListRaise ==
    /\ pc = "calendarList"
    /\ calls' = Append(calls, [request |-> "calendarList", ok |-> FALSE])
    /\ pc' = "raised"
    /\ UNCHANGED <<now, ticks, calendar_names, output, returned, raw_calendars,
                   applicable_calendars, cal, all_events, events, parsed_events, iter,
                   next_event, tu_now, time_until, form, shown, tint>>

\* _get_events(cal): events().list(...).execute() answers.
EventsListExecute ==
    /\ pc = "for_cal"
    /\ cal <= Len(applicable_calendars)
    /\ \E resp \in EventsResponses(now) : events' = resp
    /\ calls' = Append(calls, [request |-> applicable_calendars[cal].id, ok |-> TRUE])
    /\ parsed_events' = <<>>
    /\ iter' = <<>>
    /\ pc' = "for_event"
    /\ UNCHANGED <<now, ticks, calendar_names, output, returned, raw_calendars,
                   applicable_calendars, cal, all_events, next_event, tu_now,
                   time_until, form, shown, tint>>

\* Faulty variant of EventsListRaise: the failure is swallowed and the calendar
\* counts as empty.
EventsListRaise_swallowed ==
    /\ pc = "for_cal"
    /\ cal <= Len(applicable_calendars)
    /\ calls' = Append(calls, [request |-> applicable_calendars[cal].id, ok |-> FALSE])
    /\ events' = <<>>
    /\ parsed_events' = <<>>
    /\ iter' = <<>>
    /\ pc' = "for_event"
    /\ UNCHANGED <<now, ticks, calendar_names, output, returned, raw_calendars,
                   applicable_calendars, cal, all_events, next_event, tu_now,
                   time_until, form, shown, tint>>

\* _get_events(cal): events().list(...).execute() raises: nothing catches it.
EventsListRaise ==
    /\ pc = "for_cal"
    /\ cal <= Len(applicable_calendars)
    /\ calls' = Append(calls, [request |-> applicable_calendars[cal].id, ok |-> FALSE])
    /\ pc' = "raised"
    /\ UNCHANGED <<now, ticks, calendar_names, output, returned, raw_calendars,
                   applicable_calendars, cal, all_events, events, parsed_events, iter,
                   next_event, tu_now, time_until, form, shown, tint>>

\* One iteration of `for event in events`.
ForEvent ==
    /\ pc = "for_event"
    /\ events # <<>>
    /\ LET event == Head(events)
           owner == applicable_calendars[cal]
           did == loop_body(event, now, owner.backgroundColor)
       IN  /\ parsed_events' =
                 IF did.ev # <<>>
                 THEN Append(parsed_events, Tagged(did.ev[1], event, owner, now))
                 ELSE parsed_events
           /\ iter' = <<[event |-> event, read |-> now, exit |-> did.exit]>>
    /\ events' = Tail(events)
    /\ UNCHANGED <<now, ticks, calendar_names, pc, output, returned, calls,
                   raw_calendars, applicable_calendars, cal, all_events, next_event,
                   tu_now, time_until, form, shown, tint>>

\* _get_events returns parsed_events and get_next_events extends all_events.
EventsReturn ==
    /\ pc = "for_event"
    /\ events = <<>>
    /\ all_events' = all_events \o parsed_events
    /\ cal' = cal + 1
    /\ pc' = "for_cal"
    /\ UNCHANGED <<now, ticks, calendar_names, output, returned, calls, raw_calendars,
                   applicable_calendars, events, parsed_events, iter, next_event,
                   tu_now, time_until, form, shown, tint>>

\* After the last calendar: get_next_events sorts and returns, and meetings
\* picks the first event, reads the clock in time_until, and returns its record.
Render ==
    /\ pc = "for_cal"
    /\ cal > Len(applicable_calendars)
    /\ LET sorted == sort_by_start(all_events)
           next == first_or_none(sorted)
           until == IF next # <<>> THEN <<Event_time_until(next[1], now)>> ELSE <<>>
       IN  /\ all_events' = sorted
           /\ next_event' = next
           /\ tu_now' = IF next # <<>> THEN <<now>> ELSE <<>>
           /\ time_until' = until
           /\ output' = meetings_output(output, next, until)
           /\ returned' = <<meetings_output(output, next, until)>>
    /\ pc' = "returned"
    /\ UNCHANGED <<now, ticks, calendar_names, calls, raw_calendars,
                   applicable_calendars, cal, events, parsed_events, iter, form, shown,
                   tint>>

\* A second passes.
Tick ==
    /\ ticks < MaxTicks
    /\ ticks' = ticks + 1
    /\ now' = now + 1
    /\ UNCHANGED <<calendar_names, pc, output, returned, calls, raw_calendars,
                   applicable_calendars, cal, all_events, events, parsed_events, iter,
                   next_event, tu_now, time_until, form, shown, tint>>

Next ==
    \/ Meetings
    \/ CalendarListExecute
    \/ CalendarListRaise
    \/ EventsListExecute
    \/ EventsListRaise
    \/ ForEvent
    \/ EventsReturn
    \/ Render
    \/ Tick

Spec == Init /\ [][Next]_vars

---------------------------------------------------------------------------
(* Duration and get_duration_color on their own: Duration(form) for an int *)

Forms == 0..MaxSeconds \cup {SecondsPerDay - 1}

DurationInit ==
    /\ form \in Forms
    /\ now = 0
    /\ ticks = 0
    /\ calendar_names = {}
    /\ pc = "idle"
    /\ output = <<>>
    /\ returned = <<>>
    /\ calls = <<>>
    /\ raw_calendars = <<>>
    /\ applicable_calendars = <<>>
    /\ cal = 1
    /\ all_events = <<>>
    /\ events = <<>>
    /\ parsed_events = <<>>
    /\ iter = <<>>
    /\ next_event = <<>>
    /\ tu_now = <<>>
    /\ time_until = <<>>
    /\ shown = <<>>
    /\ tint = <<>>

Str ==
    /\ shown = <<>>
    /\ shown' = <<Duration_str(Duration(int(form)))>>
    /\ UNCHANGED <<form, tint>>
    /\ UNCHANGED cycleVars

Color ==
    /\ tint = <<>>
    /\ tint' = <<get_duration_color(Duration(int(form)))>>
    /\ UNCHANGED <<form, shown>>
    /\ UNCHANGED cycleVars

DurationNext == Str \/ Color

DurationSpec == DurationInit /\ [][DurationNext]_vars

---------------------------------------------------------------------------
(* Properties *)

Elems(s) == { s[i] : i \in DOMAIN s }

\* Every Event the cycle currently holds.
HeldEvents == Elems(parsed_events) \cup Elems(all_events) \cup Elems(next_event)

AllDay(item) == "date" \in DOMAIN item.start

\* C1: when an event survives, meetings returns a two-segment composite: the
\* second segment is the title of an event with the smallest start among all
\* surviving events, in the backgroundColor of the calendar it was fetched
\* from; the first is colored by get_duration_color of that event's
\* time_until.  Every surviving event comes from a tracked calendar.  With a
\* Work/#111 event in 10 minutes and a Life/#222 event in 90 minutes the Work
\* event is shown, urgent, its title in #111.
C1_EarliestEventShown ==
    (pc = "returned" /\ all_events # <<>>) =>
        /\ DOMAIN returned[1] = {"cached_until", "composite"}
        /\ Len(returned[1].composite) = 2
        /\ \E i \in DOMAIN all_events :
             LET e == all_events[i] IN
             /\ \A j \in DOMAIN all_events :
                    e.start.instant <= all_events[j].start.instant
             /\ returned[1].composite[2].full_text = e.origin.item.summary
             /\ returned[1].composite[2].color = e.origin.calendar.backgroundColor
             /\ returned[1].composite[1].color =
                    get_duration_color(Event_time_until(e, tu_now[1]))
        /\ \A e \in Elems(all_events) : e.origin.calendar.summary \in calendar_names
        /\ ({ <<e.origin.calendar.summary, e.origin.item.summary>> :
                e \in Elems(all_events) } = {<<"Work", "Review">>, <<"Life", "Lunch">>}
            => /\ returned[1].composite[2] = [full_text |-> "Review", color |-> "#111"]
               /\ returned[1].composite[1].color = "#FF0000")

\* C1 witness: the Work event in 10 minutes and the Life event in 90 minutes
\* survived, Life's fetched first, and the Work event is shown.
C1_Witness ==
    /\ pc = "returned"
    /\ Len(all_events) = 2
    /\ applicable_calendars[1].summary = "Life"
    /\ all_events[1].origin.calendar.summary = "Work"
    /\ all_events[1].origin.item.summary = "Review"
    /\ all_events[2].origin.calendar.summary = "Life"
    /\ all_events[2].origin.item.summary = "Lunch"
    /\ returned[1].composite[2] = [full_text |-> "Review", color |-> "#111"]

\* C2: when get_next_events returns nothing (no tracked names, no provider
\* calendar with a tracked name, or every event filtered out) meetings returns
\* the text 'No upcoming events' and no composite; a tracked name without a
\* calendar raises nothing.
C2_NoUpcomingEvents ==
    /\ (pc = "returned" /\ all_events = <<>>) =>
           /\ DOMAIN returned[1] = {"cached_until", "full_text"}
           /\ returned[1].full_text = "No upcoming events"
    /\ (pc = "returned" /\ (\A i \in DOMAIN raw_calendars :
                               raw_calendars[i].summary \notin calendar_names)) =>
           /\ all_events = <<>>
           /\ Len(calls) = 1
    /\ pc = "raised" => (calls # <<>> /\ ~calls[Len(calls)].ok)

\* C2 witness: a calendar is tracked that the provider does not list, the
\* provider lists others, and 'No upcoming events' is returned.
C2_Witness ==
    /\ pc = "returned"
    /\ calendar_names = {"Gone"}
    /\ Len(raw_calendars) = 2
    /\ returned[1].full_text = "No upcoming events"

\* The events of `out` are those of `inp`, in non-decreasing start order, and
\* events with the same start keep the order they have in `inp`.
StableSortOf(out, inp) ==
    /\ Len(out) = Len(inp)
    /\ \A i, j \in DOMAIN out : i < j => out[i].start.instant <= out[j].start.instant
    /\ \A k \in { e.start.instant : e \in Elems(out) \cup Elems(inp) } :
           SelectSeq(out, LAMBDA e : e.start.instant = k)
               = SelectSeq(inp, LAMBDA e : e.start.instant = k)

\* C3: what get_next_events returns is non-decreasing by start, a permutation
\* of the concatenated per-calendar survivors, and keeps the fetch order of
\* events with equal starts.
C3_StableSort ==
    [][(pc = "for_cal" /\ pc' = "returned") => StableSortOf(all_events', all_events)]_vars

\* Position of the calendar an Event was fetched from in applicable_calendars.
CalendarIndex(e) ==
    CHOOSE i \in DOMAIN applicable_calendars : applicable_calendars[i] = e.origin.calendar

\* C3 witness: the sorted result holds two events of equal start from different
\* calendars and an event of the first calendar behind one of the second.
C3_Witness ==
    /\ pc = "returned"
    /\ \E i, j \in DOMAIN all_events :
           /\ i < j
           /\ all_events[i].start.instant = all_events[j].start.instant
           /\ CalendarIndex(all_events[i]) < CalendarIndex(all_events[j])
    /\ \E i, j \in DOMAIN all_events :
           /\ i < j
           /\ CalendarIndex(all_events[i]) > CalendarIndex(all_events[j])

\* C4: no all-day event is in the output of _get_events or get_next_events, nor
\* is one the event meetings shows.
C4_NoAllDayEvent ==
    /\ \A e \in HeldEvents : ~AllDay(e.origin.item)
    /\ (pc = "returned" /\ "composite" \in DOMAIN returned[1]) =>
           \E e \in Elems(all_events) :
               /\ ~AllDay(e.origin.item)
               /\ returned[1].composite[2].full_text = e.origin.item.summary

\* C4 witness: the loop has just skipped an all-day event, and another event of
\* the same response is shown.
C4_Witness ==
    /\ pc = "returned"
    /\ iter # <<>>
    /\ AllDay(iter[1].event)
    /\ iter[1].exit = "allday"
    /\ "composite" \in DOMAIN returned[1]

\* C5 as stated: an event whose start is not strictly after now, read when the
\* event is filtered, is excluded from the output of _get_events (start = now
\* included).
C5_NotStrictlyAfterExcluded ==
    \A e \in HeldEvents : e.start.instant > e.origin.at

\* C5 amended: an event whose start is strictly before now, read when the event
\* is filtered, is excluded from the output of _get_events; a timed event whose
\* start equals now or is after it is kept.
C5_StartedExcluded ==
    /\ \A e \in HeldEvents : e.start.instant >= e.origin.at
    /\ (iter # <<>> /\ ~AllDay(iter[1].event)) =>
           /\ ProviderStart(iter[1].event) < iter[1].read <=> iter[1].exit = "started"
           /\ ProviderStart(iter[1].event) >= iter[1].read <=> iter[1].exit = "appended"

\* C5 witness: an event that started before the clock reading of its filter has
\* just been skipped, and an event starting at the reading of its filter is kept.
C5_Witness ==
    /\ iter # <<>>
    /\ ~AllDay(iter[1].event)
    /\ ProviderStart(iter[1].event) < iter[1].read
    /\ iter[1].exit = "started"
    /\ \E e \in Elems(parsed_events) : e.start.instant = e.origin.at

\* C6: get_duration_color is '#FF0000' exactly under 1200 seconds, '#FFFF00'
\* exactly from 1200 to under 7200 seconds, and None exactly from 7200 seconds.
C6_ColorTiers ==
    tint # <<>> =>
        /\ tint[1] = "#FF0000" <=> form < 1200
        /\ tint[1] = "#FFFF00" <=> (1200 <= form /\ form < 7200)
        /\ tint[1] = NoColor <=> form >= 7200
        /\ form = 1199 => tint[1] = "#FF0000"
        /\ form = 1200 => tint[1] = "#FFFF00"
        /\ form = 7199 => tint[1] = "#FFFF00"
        /\ form = 7200 => tint[1] = NoColor

\* C6 witness: 120m0s has been classified and has no color.
C6_Witness == form = 7200 /\ tint = <<NoColor>>

\* C7: str(Duration(s)) is '<H>h <M>m' with H = floor(s / 3600) and
\* M = floor(s / 60) mod 60 from 3600 seconds, and '<M>m' with M = floor(s / 60)
\* under 3600 seconds.
C7_DurationText ==
    shown # <<>> =>
        /\ form >= 3600 =>
               shown[1] = ToString(form \div 3600) \o "h "
                              \o ToString((form \div 60) % 60) \o "m"
        /\ form < 3600 => shown[1] = ToString(form \div 60) \o "m"
        /\ form = 0 => shown[1] = "0m"
        /\ form = 59 => shown[1] = "0m"
        /\ form = 60 => shown[1] = "1m"
        /\ form = 3599 => shown[1] = "59m"
        /\ form = 3600 => shown[1] = "1h 0m"
        /\ form = 7530 => shown[1] = "2h 5m"

\* C7 witness: 7530 seconds have been rendered as '2h 5m'.
C7_Witness == form = 7530 /\ shown = <<"2h 5m">>

\* C8: the Duration time_until returns counts start minus now, also when now has
\* passed start between the filter and the render.
C8_SignedSecondsUntilStart ==
    (pc = "returned" /\ next_event # <<>>) =>
        time_until[1].seconds = next_event[1].start.instant - tu_now[1]

\* The provider requests a cycle makes: the calendar list, then the events of
\* each listed calendar with a tracked name, in list order.
RequestsDue ==
    LET matched == SelectSeq(raw_calendars, LAMBDA c : c.summary \in calendar_names)
    IN  <<"calendarList">> \o [i \in DOMAIN matched |-> matched[i].id]

\* C9: a cycle fetches the calendar list once, then the events of each matched
\* calendar once, in list order; a failed fetch ends the cycle with nothing
\* returned, and no fetch follows it.
C9_AllOrNothing ==
    /\ Len(calls) <= Len(RequestsDue)
    /\ \A i \in DOMAIN calls :
           /\ calls[i].request = RequestsDue[i]
           /\ ~calls[i].ok =>
                  /\ i = Len(calls)
                  /\ pc = "raised"
    /\ pc = "raised" =>
           /\ returned = <<>>
           /\ DOMAIN output = {"cached_until"}
           /\ ~calls[Len(calls)].ok
    /\ pc = "returned" =>
           /\ Len(calls) = Len(RequestsDue)
           /\ \A i \in DOMAIN calls : calls[i].ok

\* C9 witness: the second calendar's fetch failed after the first calendar gave
\* an event, and nothing was returned.
C9_Witness ==
    /\ pc = "raised"
    /\ Len(calls) = 3
    /\ all_events # <<>>
    /\ returned = <<>>

\* The zone the provider gave for an item, UTC when it gave none.
ProviderZone(item) ==
    IF "timeZone" \in DOMAIN item.start THEN timezone(item.start.timeZone)
    ELSE timezone("utc")

\* C10: a timed event's tz is the provider-given zone when its start record
\* carries 'timeZone' and UTC only when it does not, and its start and end are
\* expressed in that zone.
C10_ProviderZoneUsed ==
    \A e \in HeldEvents :
        /\ e.tz = ProviderZone(e.origin.item)
        /\ e.start.tz = ProviderZone(e.origin.item)
        /\ e.end.tz = ProviderZone(e.origin.item)

====
